---- MODULE Spec2Model ----
(***************************************************************************)
(* A model of src/src/bun/core/BrowserView.ts: the view registry, the      *)
(* creation of a view's pipes, the chunked pipe encoder                    *)
(* (executeJavascript), the transport's send with its socket-or-pipe       *)
(* choice, the line decoder (readFromPipe), and the message listener of    *)
(* defineRPC.                                                               *)
(*                                                                         *)
(* Text is a sequence of UTF-16 code units, as a JavaScript string is:      *)
(*   "a" "n" "w" "(" ")" "Q" (double quote) "BS" (backslash) "SP" (space)   *)
(*   "NL" (newline)            one byte each in UTF-8                       *)
(*   "E"                       a BMP character of two UTF-8 bytes           *)
(*   "H" "L"                   a surrogate pair: one character, four bytes  *)
(*   "R"                       U+FFFD, three bytes                          *)
(* A byte is <<c, k, n>>: the k-th of the n bytes that encode character c.  *)
(***************************************************************************)
EXTENDS Integers, Sequences, FiniteSets, TLC

(* Bounds of the model. CHUNK_SIZE is the code's 1024 * 4 (line 23) scaled *)
(* down; the encoder is parametric in it.                                  *)
CHUNK_SIZE == 3
MaxPad == 6
MaxTail == 2
MaxSends == 3
MaxLines == 2
MaxViews == 3
MaxMessages == 2

VARIABLES
  nextWebviewId,   \* line 21
  views,           \* the BrowserView objects, in construction order
  BrowserViewMap,  \* line 18
  fifos,           \* per view id: how the two mkfifo calls of its construction ended
  inStream,        \* per view id: the writes made to the _in pipe, in order
  socketQueue,     \* per view id: messages in flight on the socket
  socketSent,      \* per view id: every message handed to the socket
  sendLog,         \* every transport.send call: [view, msg, accepts]
  pipeTags,        \* per view id: the sendLog indices written to the pipe
  peerPos,         \* per view id: writes of inStream the peer has consumed
  delivered,       \* per view id: what the peer's receive callback saw
  consoleErrors,   \* console.error calls made by send
  uncaught,        \* exceptions that escaped send
  toWrite,         \* bytes the view side has yet to write to the _out pipe
  outPipe,         \* bytes in the _out pipe, not yet read
  eof,             \* no writer holds the _out pipe open
  written,         \* every byte written to the _out pipe so far
  readerState,     \* "reading" | "done" | "failed": readFromPipe's loop
  eofReported,     \* reader.read() has returned done
  buffer,          \* line 292
  callbackLog,     \* the handler's invocations
  errorLog,        \* console.error("webview: ", line) calls
  throwing,        \* the events on which the registered handler throws
  msg,             \* the message a codec run is about
  js,              \* the text handed to executeJavascript
  fed,             \* writes of the codec run fed to the line decoder
  messageHandlers, \* config.handlers.messages of defineRPC
  dispatchLog,     \* per inbound message: the handler calls made for it
  inflight,        \* the executeJavascript calls that have not returned
  writeOwner       \* per view id: for each write on inStream, the call that made it

viewVars == <<nextWebviewId, views, BrowserViewMap, fifos>>
sendVars == <<socketQueue, socketSent, sendLog, pipeTags, peerPos, delivered,
              consoleErrors, uncaught>>
recvVars == <<toWrite, outPipe, eof, written, readerState, eofReported, buffer,
              callbackLog, errorLog, throwing>>
codecVars == <<msg, js, fed>>
rpcVars == <<messageHandlers, dispatchLog>>
callVars == <<inflight, writeOwner>>
vars == <<viewVars, inStream, sendVars, recvVars, codecVars, rpcVars, callVars>>

----------------------------------------------------------------------------
(* Text and bytes                                                           *)

Whitespace == {"SP", "NL"}

RECURSIVE Flatten(_)
Flatten(ss) == IF ss = <<>> THEN <<>> ELSE Head(ss) \o Flatten(Tail(ss))

Utf8Bytes(c, n) == [k \in 1..n |-> <<c, k, n>>]

(* What inStream.write(string) puts on the pipe: the UTF-8 bytes of that   *)
(* one string. A surrogate with no partner in the same string becomes      *)
(* U+FFFD.                                                                  *)
RECURSIVE Utf8Encode(_)
Utf8Encode(s) ==
  IF s = <<>> THEN <<>>
  ELSE IF s[1] = "H" /\ Len(s) >= 2 /\ s[2] = "L"
    THEN Utf8Bytes("HL", 4) \o Utf8Encode(SubSeq(s, 3, Len(s)))
  ELSE IF s[1] \in {"H", "L", "R"}
    THEN Utf8Bytes("R", 3) \o Utf8Encode(Tail(s))
  ELSE IF s[1] = "E"
    THEN Utf8Bytes("E", 2) \o Utf8Encode(Tail(s))
  ELSE Utf8Bytes(s[1], 1) \o Utf8Encode(Tail(s))

(* The leading bytes of b that are, in order, the first bytes of one       *)
(* encoded character (0 when b starts with a continuation byte).            *)
GoodRun(b) ==
  LET c == b[1][1]
      n == b[1][3]
      ok(j) == \A i \in 1..j : i <= Len(b) /\ b[i] = <<c, i, n>>
  IN  CHOOSE j \in 0..n : ok(j) /\ (j = n \/ ~ok(j + 1))

Utf8Char(c) == IF c = "HL" THEN <<"H", "L">> ELSE <<c>>

(* new TextDecoder().decode(value): a fresh, non-streaming decoder for     *)
(* each value; an incomplete or stray sequence decodes to U+FFFD.           *)
RECURSIVE TextDecode(_)
TextDecode(b) ==
  IF b = <<>> THEN <<>>
  ELSE LET m == GoodRun(b) IN
    IF m = 0 THEN <<"R">> \o TextDecode(Tail(b))
    ELSE IF m = b[1][3]
      THEN Utf8Char(b[1][1]) \o TextDecode(SubSeq(b, m + 1, Len(b)))
    ELSE <<"R">> \o TextDecode(SubSeq(b, m + 1, Len(b)))

(* String.prototype.indexOf("\n"), 1-based; 0 when there is none.           *)
IndexOfNewline(s) ==
  IF \E i \in 1..Len(s) : s[i] = "NL"
  THEN CHOOSE i \in 1..Len(s) : s[i] = "NL" /\ \A k \in 1..(i - 1) : s[k] # "NL"
  ELSE 0

(* String.prototype.trim()                                                  *)
Trim(s) ==
  LET keep == {i \in 1..Len(s) : s[i] \notin Whitespace} IN
  IF keep = {} THEN <<>>
  ELSE SubSeq(s, CHOOSE i \in keep : \A k \in keep : i <= k,
                 CHOOSE i \in keep : \A k \in keep : i >= k)

----------------------------------------------------------------------------
(* JSON, for the values the model sends: strings, and a value that cannot   *)
(* be serialized (a cyclic object, a BigInt). send gets its messages from   *)
(* the RPC layer, which hands it objects: JSON.stringify returns a text or  *)
(* throws. Strings here are well-formed: "H" is always followed by "L".     *)

Str(s) == [t |-> "string", v |-> s]
Cyclic == [t |-> "cyclic", v |-> <<>>]

RECURSIVE Escape(_)
Escape(s) ==
  IF s = <<>> THEN <<>>
  ELSE (IF s[1] = "NL" THEN <<"BS", "n">>
        ELSE IF s[1] \in {"Q", "BS"} THEN <<"BS", s[1]>>
        ELSE <<s[1]>>) \o Escape(Tail(s))

(* JSON.stringify(message): ok is FALSE when it throws.                     *)
JSONStringify(m) ==
  IF m.t = "string" THEN [ok |-> TRUE, text |-> <<"Q">> \o Escape(m.v) \o <<"Q">>]
  ELSE [ok |-> FALSE, text |-> <<>>]

(* The body of a JSON string literal, unescaped; ok is FALSE when the body *)
(* is not one.                                                              *)
RECURSIVE Unescape(_)
Unescape(s) ==
  IF s = <<>> THEN [ok |-> TRUE, v |-> <<>>]
  ELSE IF s[1] = "BS"
    THEN IF Len(s) >= 2 /\ s[2] \in {"n", "Q", "BS"}
         THEN LET r == Unescape(SubSeq(s, 3, Len(s))) IN
              [ok |-> r.ok, v |-> <<IF s[2] = "n" THEN "NL" ELSE s[2]>> \o r.v]
         ELSE [ok |-> FALSE, v |-> <<>>]
  ELSE IF s[1] \in {"Q", "NL"} THEN [ok |-> FALSE, v |-> <<>>]
  ELSE LET r == Unescape(Tail(s)) IN [ok |-> r.ok, v |-> <<s[1]>> \o r.v]

(* JSON.parse(line): ok is FALSE when it throws.                            *)
JSONParse(line) ==
  IF Len(line) >= 2 /\ line[1] = "Q" /\ line[Len(line)] = "Q"
  THEN LET r == Unescape(SubSeq(line, 2, Len(line) - 1)) IN
       [ok |-> r.ok, event |-> Str(r.v)]
  ELSE [ok |-> FALSE, event |-> Str(<<>>)]

----------------------------------------------------------------------------
(* The encoder                                                              *)

(* The while loop of executeJavascript, from a given offset (0-based).      *)
RECURSIVE ChunkLoop(_, _)
ChunkLoop(text, offset) ==
  IF offset < Len(text)
  THEN <<SubSeq(text, offset + 1,
                IF offset + CHUNK_SIZE < Len(text) THEN offset + CHUNK_SIZE
                                                   ELSE Len(text))>>
       \o ChunkLoop(text, offset + CHUNK_SIZE)
  ELSE <<>>

(* executeJavascript(js): the writes it makes to inStream, in order.        *)
executeJavascript(text) == ChunkLoop(text, 0) \o << <<"NL">> >>

(* The template literal of sendMessageToWebviewViaExecute; "w(" stands for *)
(* the text window.__electrobun.receiveMessageFromBun( .                    *)
WrapMessage(stringified) == <<"w", "(">> \o stringified \o <<")">>

(* sendMessageToWebviewViaExecute(jsonMessage) with a string argument, as  *)
(* send calls it: the writes made to inStream.                              *)
sendMessageToWebviewViaExecute(stringified) ==
  executeJavascript(WrapMessage(stringified))

----------------------------------------------------------------------------
(* The decoder                                                              *)

(* A handler call with no try around it.                                    *)
HandlerCall_NoCatch(line, event, thr) ==
  [events |-> <<event>>, errors |-> <<>>, thrown |-> event \in thr]

(* The handler call of line 306, inside the try: the handler throws on the *)
(* events of thr, and the catch logs the line; thrown says whether an      *)
(* exception leaves the try statement.                                      *)
HandlerCall(line, event, thr) ==
  [events |-> <<event>>, errors |-> IF event \in thr THEN <<line>> ELSE <<>>,
   thrown |-> FALSE]

(* Lines 304 to 309 with no test of the line before them.                   *)
HandleLine_NoEmptyCheck(line, thr) ==
  LET p == JSONParse(line) IN
  IF p.ok THEN HandlerCall(line, p.event, thr)
  ELSE [events |-> <<>>, errors |-> <<line>>, thrown |-> FALSE]

(* Lines 303 to 310 for one line.                                           *)
HandleLine(line, thr) ==
  IF line = <<>> THEN [events |-> <<>>, errors |-> <<>>, thrown |-> FALSE]
  ELSE LET p == JSONParse(line) IN
       IF p.ok THEN HandlerCall(line, p.event, thr)
       ELSE [events |-> <<>>, errors |-> <<line>>, thrown |-> FALSE]

(* An if in place of the while: one line is taken for each read.            *)
DrainLines_OneLine(buf, thr) ==
  LET eolIndex == IndexOfNewline(buf) IN
  IF eolIndex = 0
  THEN [buffer |-> buf, events |-> <<>>, errors |-> <<>>, thrown |-> FALSE]
  ELSE LET h == HandleLine(Trim(SubSeq(buf, 1, eolIndex - 1)), thr)
       IN  [buffer |-> SubSeq(buf, eolIndex + 1, Len(buf)),
            events |-> h.events, errors |-> h.errors, thrown |-> h.thrown]

(* The inner while loop, lines 300 to 311. An exception that leaves the    *)
(* try statement leaves the loop, with the line already cut off the buffer. *)
RECURSIVE DrainLines(_, _)
DrainLines(buf, thr) ==
  LET eolIndex == IndexOfNewline(buf) IN
  IF eolIndex = 0
  THEN [buffer |-> buf, events |-> <<>>, errors |-> <<>>, thrown |-> FALSE]
  ELSE LET h == HandleLine(Trim(SubSeq(buf, 1, eolIndex - 1)), thr)
           rest == SubSeq(buf, eolIndex + 1, Len(buf))
           r == DrainLines(rest, thr)
       IN  IF h.thrown
           THEN [buffer |-> rest, events |-> h.events, errors |-> h.errors,
                 thrown |-> TRUE]
           ELSE [buffer |-> r.buffer, events |-> h.events \o r.events,
                 errors |-> h.errors \o r.errors, thrown |-> r.thrown]

(* One iteration of the outer loop with a value read: lines 297 to 311.    *)
ProcessRead(buf, value, thr) == DrainLines(buf \o TextDecode(value), thr)

----------------------------------------------------------------------------
(* The values the model draws its inputs from                               *)

NewlineWrite == <<"NL">>

Atoms == {<<"a">>, <<"E">>, <<"H", "L">>, <<"NL">>}

RECURSIVE AtomStrings(_)
AtomStrings(n) ==
  IF n = 0 THEN {<<>>}
  ELSE {a \o s : a \in Atoms, s \in AtomStrings(n - 1)}

Pad(k) == [i \in 1..k |-> "a"]

CodecMessages ==
  {Str(Pad(k) \o t) : k \in 0..MaxPad,
                      t \in UNION {AtomStrings(n) : n \in 0..MaxTail}}

(* A codec run about no message: executeJavascript("").                     *)
NoMessage == [t |-> "none", v |-> <<>>]

----------------------------------------------------------------------------
(* The state of each part before it is used                                 *)

ViewsIdle ==
  /\ nextWebviewId = 1
  /\ views = <<>>
  /\ BrowserViewMap = <<>>
  /\ fifos = <<>>

SendIdle ==
  /\ socketQueue = <<>>
  /\ socketSent = <<>>
  /\ sendLog = <<>>
  /\ pipeTags = <<>>
  /\ peerPos = <<>>
  /\ delivered = <<>>
  /\ consoleErrors = 0
  /\ uncaught = 0

RecvIdle ==
  /\ toWrite = <<>>
  /\ outPipe = <<>>
  /\ eof = FALSE
  /\ written = <<>>
  /\ readerState = "reading"
  /\ eofReported = FALSE
  /\ buffer = <<>>
  /\ callbackLog = <<>>
  /\ errorLog = <<>>
  /\ throwing = {}

CodecIdle ==
  /\ msg = NoMessage
  /\ js = <<>>
  /\ fed = 0

RpcIdle ==
  /\ messageHandlers = {}
  /\ dispatchLog = <<>>

CallsIdle ==
  /\ inflight = {}
  /\ writeOwner = <<>>

----------------------------------------------------------------------------
(* SpecCodec: one executeJavascript call on the stream of view 1, and its  *)
(* writes fed, one write per read, to the line decoder.                     *)

CodecInit ==
  /\ ViewsIdle /\ SendIdle /\ RecvIdle /\ RpcIdle /\ CallsIdle
  /\ inStream = <<<<NewlineWrite>>>>
  /\ msg \in CodecMessages \cup {NoMessage}
  /\ js = IF msg = NoMessage THEN <<>> ELSE JSONStringify(msg).text
  /\ fed = 0

CodecEncoded == Len(inStream[1]) > 1

(* The writes the executeJavascript call made.                              *)
EncoderWrites == SubSeq(inStream[1], 2, Len(inStream[1]))

CodecExecute ==
  /\ ~CodecEncoded
  /\ inStream' = [inStream EXCEPT ![1] = @ \o executeJavascript(js)]
  /\ UNCHANGED <<rpcVars, callVars>>
  /\ UNCHANGED <<viewVars, sendVars, recvVars, codecVars>>

CodecFeed ==
  /\ CodecEncoded
  /\ fed < Len(inStream[1])
  /\ LET r == ProcessRead(buffer, Utf8Encode(inStream[1][fed + 1]), throwing) IN
       /\ buffer' = r.buffer
       /\ callbackLog' = callbackLog \o r.events
       /\ errorLog' = errorLog \o r.errors
  /\ fed' = fed + 1
  /\ UNCHANGED <<rpcVars, callVars>>
  /\ UNCHANGED <<viewVars, sendVars, inStream, msg, js, toWrite, outPipe, eof,
                 written, readerState, eofReported, throwing>>

CodecNext == CodecExecute \/ CodecFeed

SpecCodec == CodecInit /\ [][CodecNext]_vars

(* C1: every message's JSON text, written by executeJavascript and fed     *)
(* write by write to readFromPipe, reaches the handler exactly once, equal *)
(* to the message.                                                          *)
C1_RoundTrip ==
  (msg # NoMessage /\ CodecEncoded /\ fed = Len(inStream[1]))
    => callbackLog = <<msg>>

(* C5: the encoder writes non-empty chunks of at most CHUNK_SIZE bytes     *)
(* each, whose bytes together are the bytes of the text, and then exactly  *)
(* one newline as its last write.                                           *)
C5_ChunkBound ==
  CodecEncoded =>
    LET w == EncoderWrites
        chunks == SubSeq(w, 1, Len(w) - 1)
    IN  /\ w[Len(w)] = NewlineWrite
        /\ \A i \in 1..Len(chunks) :
             /\ chunks[i] # <<>>
             /\ Len(Utf8Encode(chunks[i])) <= CHUNK_SIZE
        /\ Flatten([i \in 1..Len(chunks) |-> Utf8Encode(chunks[i])])
             = Utf8Encode(js)

----------------------------------------------------------------------------
(* Reference operators for stating the claims: the complete lines of a     *)
(* text, by the positions of its newlines.                                  *)

NewlinePositions(text) == {i \in 1..Len(text) : text[i] = "NL"}

NthNewline(text, k) ==
  CHOOSE i \in NewlinePositions(text) :
    Cardinality({j \in NewlinePositions(text) : j <= i}) = k

CompleteLines(text) ==
  [k \in 1..Cardinality(NewlinePositions(text)) |->
     SubSeq(text, (IF k = 1 THEN 0 ELSE NthNewline(text, k - 1)) + 1,
                  NthNewline(text, k) - 1)]

IsBlank(line) == \A i \in 1..Len(line) : line[i] \in Whitespace
WellFormed(line) == ~IsBlank(line) /\ JSONParse(Trim(line)).ok
Malformed(line) == ~IsBlank(line) /\ ~JSONParse(Trim(line)).ok

(* The values of the well-formed lines of a text, in order.                 *)
WellFormedEvents(text) ==
  LET ls == SelectSeq(CompleteLines(text), WellFormed) IN
  [i \in 1..Len(ls) |-> JSONParse(Trim(ls[i])).event]

----------------------------------------------------------------------------
(* SpecRecv: the receive loop of one view. The view side writes a stream   *)
(* of lines to the _out pipe in pieces of any size, may close it, and may  *)
(* open it again; readFromPipe reads what is there.                         *)

RecvMessages == {Str(<<"a">>), Str(<<"E">>), Str(<<"H", "L">>)}

LineSet ==
  {JSONStringify(m).text : m \in RecvMessages}
    \cup {<<"a">>, <<>>, <<"SP">>, <<"SP", "Q", "a", "Q", "SP">>}

RECURSIVE LineSeqs(_)
LineSeqs(n) ==
  IF n = 0 THEN {<<>>}
  ELSE {<<l>> \o ls : l \in LineSet, ls \in LineSeqs(n - 1)}

(* The bytes of a sequence of lines, each followed by a newline.            *)
StreamOf(ls) == Flatten([i \in 1..Len(ls) |-> Utf8Encode(ls[i] \o <<"NL">>)])

Streams == {StreamOf(ls) : ls \in UNION {LineSeqs(n) : n \in 0..MaxLines}}

RecvInit ==
  /\ ViewsIdle /\ SendIdle /\ CodecIdle /\ RpcIdle /\ CallsIdle
  /\ inStream = <<<<NewlineWrite>>>>
  /\ toWrite \in Streams
  /\ outPipe = <<>>
  /\ eof = FALSE
  /\ written = <<>>
  /\ readerState = "reading"
  /\ eofReported = FALSE
  /\ buffer = <<>>
  /\ callbackLog = <<>>
  /\ errorLog = <<>>
  /\ throwing \in {{}, {Str(<<"a">>)}}

(* The view side writes the next n bytes of its stream.                     *)
ViewWrite(n) ==
  /\ n <= Len(toWrite)
  /\ outPipe' = outPipe \o SubSeq(toWrite, 1, n)
  /\ written' = written \o SubSeq(toWrite, 1, n)
  /\ toWrite' = SubSeq(toWrite, n + 1, Len(toWrite))
  /\ eof' = FALSE
  /\ UNCHANGED <<rpcVars, callVars>>
  /\ UNCHANGED <<viewVars, sendVars, codecVars, inStream, readerState,
                 eofReported, buffer, callbackLog, errorLog, throwing>>

(* The view side closes its end of the pipe.                                *)
ViewClose ==
  /\ ~eof
  /\ eof' = TRUE
  /\ UNCHANGED <<rpcVars, callVars>>
  /\ UNCHANGED <<viewVars, sendVars, codecVars, inStream, toWrite, outPipe,
                 written, readerState, eofReported, buffer, callbackLog,
                 errorLog, throwing>>

(* A loop that does not break on done.                                      *)
StateAfterDone_NoBreak == "reading"

(* Line 295: where the loop stands after reader.read() reported done.       *)
StateAfterDone == "done"

(* reader.read() yields the bytes in the pipe: lines 294 to 311. An        *)
(* exception that leaves the loop rejects readFromPipe's promise.           *)
Read ==
  /\ readerState = "reading"
  /\ outPipe # <<>>
  /\ LET r == ProcessRead(buffer, outPipe, throwing) IN
       /\ buffer' = r.buffer
       /\ callbackLog' = callbackLog \o r.events
       /\ errorLog' = errorLog \o r.errors
       /\ readerState' = IF r.thrown THEN "failed" ELSE readerState
  /\ outPipe' = <<>>
  /\ UNCHANGED <<rpcVars, callVars>>
  /\ UNCHANGED <<viewVars, sendVars, codecVars, inStream, toWrite, eof,
                 written, eofReported, throwing>>

(* reader.read() reports done: lines 294 and 295.                           *)
ReadDone ==
  /\ readerState = "reading"
  /\ outPipe = <<>>
  /\ eof
  /\ readerState' = StateAfterDone
  /\ eofReported' = TRUE
  /\ UNCHANGED <<rpcVars, callVars>>
  /\ UNCHANGED <<viewVars, sendVars, codecVars, inStream, toWrite, outPipe,
                 eof, written, buffer, callbackLog, errorLog, throwing>>

RecvNext ==
  \/ \E n \in 1..Len(toWrite) : ViewWrite(n)
  \/ ViewClose
  \/ Read
  \/ ReadDone

SpecRecv == RecvInit /\ [][RecvNext]_vars

(* The loop has read every byte written so far.                             *)
CaughtUp == readerState = "reading" /\ outPipe = <<>>

(* C6: however the stream was split into reads, the handler has seen what  *)
(* it would have seen had the bytes so far come in one read.                *)
C6_ReadBoundaries ==
  CaughtUp => callbackLog = ProcessRead(<<>>, written, throwing).events

(* C7: when the stream holds a malformed line, the handler has been called *)
(* for the well-formed lines, once each and in order, and for no other,    *)
(* and the loop is still running.                                           *)
C7_MalformedLine ==
  (CaughtUp /\ \E i \in DOMAIN CompleteLines(TextDecode(written)) :
                  Malformed(CompleteLines(TextDecode(written))[i]))
    => callbackLog = WellFormedEvents(TextDecode(written))

(* C9: from the step at which reader.read() reports done, the loop is      *)
(* stopped, the handler is not called and nothing is logged as an error.   *)
C9_StreamEnd ==
  [][eofReported' => /\ readerState' = "done"
                     /\ callbackLog' = callbackLog
                     /\ errorLog' = errorLog]_vars

(* C9's case: the stream ended after a delivery, and a later writer left a *)
(* complete well-formed line in the pipe.                                   *)
C9_Witness ==
  /\ eofReported
  /\ callbackLog # <<>>
  /\ Len(WellFormedEvents(TextDecode(outPipe))) > 0

(* A step in which reader.read() gave a value.                              *)
ReadStep == outPipe # <<>> /\ outPipe' = <<>>

(* The text after the last newline of a text.                               *)
AfterLastNewline(text) ==
  IF NewlinePositions(text) = {} THEN text
  ELSE SubSeq(text, NthNewline(text, Cardinality(NewlinePositions(text))) + 1,
              Len(text))

(* A text with its blank complete lines taken out.                          *)
WithoutBlankLines(text) ==
  LET ls == SelectSeq(CompleteLines(text), LAMBDA l : ~IsBlank(l)) IN
  Flatten([i \in 1..Len(ls) |-> ls[i] \o <<"NL">>]) \o AfterLastNewline(text)

(* The bytes readFromPipe has read so far.                                  *)
Consumed == SubSeq(written, 1, Len(written) - Len(outPipe))

(* C18: at every read the handler calls and the error reports are those of *)
(* the same text with its blank lines (empty, or whitespace only) taken    *)
(* out, and nothing reported is an empty line.                              *)
C18_EmptyLinesSkipped ==
  [][ReadStep =>
       LET text == buffer \o TextDecode(outPipe)
           r == DrainLines(WithoutBlankLines(text), throwing)
           ls == SelectSeq(CompleteLines(text), LAMBDA l : ~IsBlank(l))
       IN  /\ callbackLog' = callbackLog \o r.events
           /\ errorLog' = errorLog \o r.errors
           /\ Len(callbackLog') - Len(callbackLog) <= Len(ls)
           /\ \A k \in DOMAIN errorLog' : errorLog'[k] # <<>>]_vars

(* C18's case: a line of one space, then a well-formed line, both read.    *)
C18_Witness ==
  /\ CaughtUp
  /\ written = StreamOf(<<<<"SP">>, JSONStringify(Str(<<"a">>)).text>>)
  /\ buffer = <<>>
  /\ callbackLog = <<Str(<<"a">>)>>
  /\ errorLog = <<>>

(* C19: at every read the handler, also when it throws, is called for the  *)
(* lines a handler that never throws is called for, in the same order, and *)
(* the loop goes on reading.                                                *)
C19_HandlerThrowContained ==
  [][ReadStep =>
       /\ readerState' = "reading"
       /\ callbackLog' =
            callbackLog \o DrainLines(buffer \o TextDecode(outPipe), {}).events]_vars

(* C19's case: the handler threw on the first line and was called for the  *)
(* line after it.                                                           *)
C19_Witness ==
  /\ Len(callbackLog) = 2
  /\ callbackLog[1] \in throwing
  /\ callbackLog[2] \notin throwing
  /\ Len(errorLog) = 1

(* C20: the buffer never holds a newline; after a read it is the text      *)
(* after the last newline read; the handler has been called no more often  *)
(* than newlines were read; and when the stream ends the text left in the  *)
(* buffer is given to no handler.                                           *)
C20_BufferHoldsPartialLine ==
  /\ [](/\ \A i \in DOMAIN buffer : buffer[i] # "NL"
        /\ Len(callbackLog) <= Cardinality(NewlinePositions(TextDecode(Consumed))))
  /\ [][ReadStep =>
          buffer' = AfterLastNewline(buffer \o TextDecode(outPipe))]_vars
  /\ [][(eofReported' /\ ~eofReported) =>
          (callbackLog' = callbackLog /\ errorLog' = errorLog)]_vars

(* C20's case: the stream ended after one line was delivered, with the     *)
(* start of the next line in the buffer.                                    *)
C20_Witness ==
  /\ eofReported
  /\ buffer # <<>>
  /\ Len(callbackLog) = 1
  /\ toWrite # <<>>

----------------------------------------------------------------------------
(* SpecSend: the transport's send on constructed views, the socket of      *)
(* ./Socket, and the peer that receives from the socket and from the _in   *)
(* pipe.                                                                    *)

SendViews == {1, 2}

SendMessages ==
  {Str(<<"a">>), Str(<<"a", "a", "H", "L">>), Cyclic}

SendInit ==
  /\ ViewsIdle /\ RecvIdle /\ CodecIdle /\ RpcIdle /\ CallsIdle
  /\ inStream = [v \in SendViews |-> <<NewlineWrite>>]
  /\ socketQueue = [v \in SendViews |-> <<>>]
  /\ socketSent = [v \in SendViews |-> <<>>]
  /\ sendLog = <<>>
  /\ pipeTags = [v \in SendViews |-> <<>>]
  /\ peerPos = [v \in SendViews |-> 0]
  /\ delivered = [v \in SendViews |-> <<>>]
  /\ consoleErrors = 0
  /\ uncaught = 0

(* sendMessageToWebviewViaSocket(id, message) of ./Socket: success when    *)
(* the socket accepts the view id and the message can be put on the wire.  *)
sendMessageToWebviewViaSocket(accepts, m) == accepts /\ JSONStringify(m).ok

(* A send that writes to the pipe whatever the socket answered.             *)
SendBody_AlwaysPipe(m, sentOverSocket) ==
  LET s == JSONStringify(m) IN
  IF s.ok
  THEN [writes |-> sendMessageToWebviewViaExecute(s.text), errors |-> 0,
        thrown |-> 0]
  ELSE [writes |-> <<>>, errors |-> 1, thrown |-> 0]

(* A send with no try around JSON.stringify.                                *)
SendBody_NoCatch(m, sentOverSocket) ==
  LET s == JSONStringify(m) IN
  IF sentOverSocket THEN [writes |-> <<>>, errors |-> 0, thrown |-> 0]
  ELSE IF s.ok
  THEN [writes |-> sendMessageToWebviewViaExecute(s.text), errors |-> 0,
        thrown |-> 0]
  ELSE [writes |-> <<>>, errors |-> 0, thrown |-> 1]

(* Lines 277 to 284 of send: the writes made to inStream, the console      *)
(* errors logged and the exceptions that leave send.                        *)
SendBody(m, sentOverSocket) ==
  LET s == JSONStringify(m) IN
  IF sentOverSocket THEN [writes |-> <<>>, errors |-> 0, thrown |-> 0]
  ELSE IF s.ok
  THEN [writes |-> sendMessageToWebviewViaExecute(s.text), errors |-> 0,
        thrown |-> 0]
  ELSE [writes |-> <<>>, errors |-> 1, thrown |-> 0]

(* transport.send(message) on view v, lines 274 to 285; accepts is whether *)
(* the socket accepts the view id at this call.                             *)
Send(v, m, accepts) ==
  /\ Len(sendLog) < MaxSends
  /\ LET idx == Len(sendLog) + 1
         sentOverSocket == sendMessageToWebviewViaSocket(accepts, m)
         r == SendBody(m, sentOverSocket)
     IN  /\ sendLog' = Append(sendLog, [view |-> v, msg |-> m, accepts |-> accepts])
         /\ socketQueue' =
              IF sentOverSocket
              THEN [socketQueue EXCEPT ![v] = Append(@, [idx |-> idx, msg |-> m])]
              ELSE socketQueue
         /\ socketSent' =
              IF sentOverSocket THEN [socketSent EXCEPT ![v] = Append(@, m)]
              ELSE socketSent
         /\ inStream' = [inStream EXCEPT ![v] = @ \o r.writes]
         /\ pipeTags' =
              IF r.writes # <<>> THEN [pipeTags EXCEPT ![v] = Append(@, idx)]
              ELSE pipeTags
         /\ consoleErrors' = consoleErrors + r.errors
         /\ uncaught' = uncaught + r.thrown
  /\ UNCHANGED <<rpcVars, callVars>>
  /\ UNCHANGED <<viewVars, recvVars, codecVars, peerPos, delivered>>

(* The peer takes the next message off the socket.                          *)
PeerSocketReceive(v) ==
  /\ socketQueue[v] # <<>>
  /\ delivered' = [delivered EXCEPT ![v] =
       Append(@, [idx |-> Head(socketQueue[v]).idx,
                  msg |-> Head(socketQueue[v]).msg, via |-> "socket"])]
  /\ socketQueue' = [socketQueue EXCEPT ![v] = Tail(@)]
  /\ UNCHANGED <<rpcVars, callVars>>
  /\ UNCHANGED <<viewVars, recvVars, codecVars, inStream, socketSent, sendLog,
                 pipeTags, peerPos, consoleErrors, uncaught>>

(* The writes of w after the first pos, up to and with the next newline.   *)
NextLineEnd(w, pos) ==
  CHOOSE k \in (pos + 1)..Len(w) :
    w[k] = NewlineWrite /\ \A i \in (pos + 1)..(k - 1) : w[i] # NewlineWrite

(* What the page evaluates for one line of the _in pipe: the argument of   *)
(* receiveMessageFromBun.                                                   *)
EvaluateLine(text) ==
  IF Len(text) >= 3 /\ SubSeq(text, 1, 2) = <<"w", "(">> /\ text[Len(text)] = ")"
  THEN JSONParse(SubSeq(text, 3, Len(text) - 1))
  ELSE [ok |-> FALSE, event |-> Str(<<>>)]

PipeDeliveries(v) == Len(SelectSeq(delivered[v], LAMBDA d : d.via = "pipe"))

(* The native host reads the next line of the _in pipe, its bytes put      *)
(* together before they are decoded, and the page evaluates it.             *)
PeerPipeReceive(v) ==
  /\ peerPos[v] < Len(inStream[v])
  /\ LET end == NextLineEnd(inStream[v], peerPos[v])
         bytes == Flatten([i \in 1..(end - 1 - peerPos[v]) |->
                             Utf8Encode(inStream[v][peerPos[v] + i])])
         e == EvaluateLine(TextDecode(bytes))
     IN  /\ peerPos' = [peerPos EXCEPT ![v] = end]
         /\ delivered' =
              IF e.ok
              THEN [delivered EXCEPT ![v] =
                      Append(@, [idx |-> pipeTags[v][PipeDeliveries(v) + 1],
                                 msg |-> e.event, via |-> "pipe"])]
              ELSE delivered
  /\ UNCHANGED <<rpcVars, callVars>>
  /\ UNCHANGED <<viewVars, recvVars, codecVars, inStream, socketQueue,
                 socketSent, sendLog, pipeTags, consoleErrors, uncaught>>

SendNext ==
  \/ \E v \in SendViews, m \in SendMessages, accepts \in BOOLEAN :
       Send(v, m, accepts)
  \/ \E v \in SendViews : PeerSocketReceive(v)
  \/ \E v \in SendViews : PeerPipeReceive(v)

SpecSend == SendInit /\ [][SendNext]_vars

(* Reference operators for the claims about send.                           *)

Serializable(m) == m.t = "string"

(* The text a pipe-path send of m puts on the wire.                         *)
WireText(m) == WrapMessage(JSONStringify(m).text)

Min(a, b) == IF a < b THEN a ELSE b

(* The chunks of a text, by position.                                       *)
ExpectedChunks(text) ==
  [k \in 1..((Len(text) + CHUNK_SIZE - 1) \div CHUNK_SIZE) |->
     SubSeq(text, (k - 1) * CHUNK_SIZE + 1, Min(k * CHUNK_SIZE, Len(text)))]

(* The indices of the sends to view v that satisfy P, in order.             *)
SendsTo(v, P(_)) ==
  SelectSeq([i \in 1..Len(sendLog) |-> i],
            LAMBDA i : sendLog[i].view = v /\ P(sendLog[i]))

MessagesOf(idxs) == [k \in 1..Len(idxs) |-> sendLog[idxs[k]].msg]

NonBlankLines(text) ==
  SelectSeq(CompleteLines(text), LAMBDA l : ~IsBlank(l))

(* The bytes on the _in pipe of view v, put together and decoded.          *)
PipeText(v) ==
  TextDecode(Flatten([k \in 1..Len(inStream[v]) |-> Utf8Encode(inStream[v][k])]))

(* C2: when every send to a view took the pipe path, the writes on its _in *)
(* pipe are the chunks of the first message, a newline, the chunks of the  *)
(* second, a newline, and so on; the lines the pipe carries are those      *)
(* messages in the order of the sends, and the peer that has read them all *)
(* has seen exactly those messages in that order.                           *)
C2_InOrderOnPipe ==
  \A v \in SendViews :
    LET all == SendsTo(v, LAMBDA c : TRUE)
        pipe == SendsTo(v, LAMBDA c : Serializable(c.msg) /\ ~c.accepts)
    IN  (all # <<>> /\ pipe = all) =>
          /\ inStream[v] =
               <<NewlineWrite>> \o
               Flatten([k \in 1..Len(pipe) |->
                          ExpectedChunks(WireText(sendLog[pipe[k]].msg))
                            \o <<NewlineWrite>>])
          /\ NonBlankLines(PipeText(v)) =
               [k \in 1..Len(pipe) |-> WireText(sendLog[pipe[k]].msg)]
          /\ peerPos[v] = Len(inStream[v]) =>
               [k \in 1..Len(delivered[v]) |-> delivered[v][k].msg]
                 = MessagesOf(pipe)

(* C3: the peer sees the messages of a view in the order send was called,  *)
(* whichever path each took.                                                *)
C3_NoReorder ==
  \A v \in SendViews :
    \A i, j \in DOMAIN delivered[v] :
      i < j => delivered[v][i].idx < delivered[v][j].idx

(* C4: every serializable message sent to a view is on exactly one         *)
(* transport: on the socket when the socket accepted the view id, and      *)
(* otherwise on the pipe, once.                                             *)
C4_ExactlyOneTransport ==
  \A v \in SendViews :
    /\ socketSent[v] =
         MessagesOf(SendsTo(v, LAMBDA c : Serializable(c.msg) /\ c.accepts))
    /\ NonBlankLines(Flatten(inStream[v])) =
         LET pipe == SendsTo(v, LAMBDA c : Serializable(c.msg) /\ ~c.accepts)
         IN  [k \in 1..Len(pipe) |-> WireText(sendLog[pipe[k]].msg)]

(* C4's case: a view whose socket stopped accepting, or started, between   *)
(* two sends.                                                               *)
C4_Witness ==
  \E v \in SendViews :
    \E i, j \in 1..Len(sendLog) :
      /\ i < j
      /\ sendLog[i].view = v /\ sendLog[j].view = v
      /\ Serializable(sendLog[i].msg) /\ Serializable(sendLog[j].msg)
      /\ sendLog[i].accepts /\ ~sendLog[j].accepts
      /\ Len(socketSent[v]) = 1

(* C8: a send never lets an exception out; a send of a message that cannot *)
(* be serialized writes nothing and logs one error; and a serializable     *)
(* message sent on the pipe path, also after such a send, is written in    *)
(* full.                                                                    *)
C8_SerializationContained ==
  [][Len(sendLog') = Len(sendLog) + 1 =>
       LET c == sendLog'[Len(sendLog')] IN
         /\ uncaught' = uncaught
         /\ ~Serializable(c.msg) =>
              /\ inStream' = inStream
              /\ consoleErrors' = consoleErrors + 1
         /\ (Serializable(c.msg) /\ ~c.accepts) =>
              inStream'[c.view] =
                inStream[c.view] \o ExpectedChunks(WireText(c.msg))
                  \o <<NewlineWrite>>]_vars

(* C8's case: a message that cannot be serialized, then a message sent on  *)
(* the same view's pipe that the peer has received.                         *)
C8_Witness ==
  \E v \in SendViews :
    \E i, j \in 1..Len(sendLog) :
      /\ i < j
      /\ sendLog[i].view = v /\ sendLog[j].view = v
      /\ ~Serializable(sendLog[i].msg)
      /\ Serializable(sendLog[j].msg) /\ ~sendLog[j].accepts
      /\ consoleErrors = 1
      /\ \E k \in DOMAIN delivered[v] :
           delivered[v][k].idx = j /\ delivered[v][k].via = "pipe"

----------------------------------------------------------------------------
(* Spec: the views of one process. The directives to the native host      *)
(* (zigRPC.request) change nothing in this process and are left out.       *)

NULL == "null"
(* hostWebviewId of a view that has no host (undefined in the code).        *)
NoHost == 0
DefaultUrl == "https://electrobun.dev"

(* JavaScript's a || b on strings and null.                                 *)
Or(a, b) == IF a \in {NULL, ""} THEN b ELSE a

Urls == {NULL, "u"}
Htmls == {NULL, "h"}

(* The options a caller may pass; webviewTagInit passes its own.            *)
OptionSets ==
  [url : Urls, html : Htmls, hostWebviewId : {NoHost}, autoResize : {TRUE}]

(* The url and html a <webview> tag may ask for.                            *)
TagContents == {<<"u", NULL>>, <<NULL, "h">>, <<NULL, NULL>>}

(* hash and randomId of lines 101 and 104: fixed for the process.           *)
hash == "hash"
randomId == "randomId"

(* Number.prototype.toString of a positive integer: its decimal digits.     *)
RECURSIVE Digits(_)
Digits(n) ==
  IF n < 10 THEN <<n>> ELSE Digits(n \div 10) \o <<n % 10>>

(* A prefix that leaves the id out.                                         *)
PipePrefix_NoId(id) ==
  <<"/private/tmp/electrobun_ipc_pipe_", hash, "_", randomId, "_">>

(* The template literal of line 146, as a sequence of its pieces.           *)
PipePrefix(id) ==
  <<"/private/tmp/electrobun_ipc_pipe_", hash, "_", randomId, "_">>
    \o Digits(id)

(* webviewPipeIn and webviewPipeOut of lines 184 and 185.                   *)
webviewPipeIn(pipePrefix) == pipePrefix \o <<"_in">>
webviewPipeOut(pipePrefix) == pipePrefix \o <<"_out">>

(* A counter that is read and not advanced.                                 *)
NextId_Stuck(n) == n

(* nextWebviewId++ of line 107: the counter after an id is taken.           *)
NextId(n) == n + 1

(* The object the constructor builds, lines 107 to 148; timer is the       *)
(* setTimeout of webviewTagInit, "none" for a view made any other way.      *)
Construct(id, options, timer) ==
  [id |-> id,
   url |-> Or(Or(options.url, DefaultUrl), NULL),
   html |-> Or(Or(options.html, NULL), NULL),
   hostWebviewId |-> options.hostWebviewId,
   autoResize |-> (IF options.autoResize = FALSE THEN FALSE ELSE TRUE),
   pipePrefix |-> PipePrefix(id),
   tagUrl |-> options.url,
   tagHtml |-> options.html,
   timer |-> timer]

(* f with f[k] set to x, k added to its domain when it is new.              *)
Put(f, k, x) == [j \in DOMAIN f \cup {k} |-> IF j = k THEN x ELSE f[j]]

(* A registration that stores nothing.                                      *)
Register_Skip(map, id, view) == map

(* BrowserViewMap[this.id] = this of line 180; a view is stored by its     *)
(* position in views, which stands for the reference to the object.        *)
Register(map, id, view) == Put(map, id, view)

(* How execSync("mkfifo " + path) can end: the pipe is made, or mkfifo     *)
(* exits with an error because the path exists, or for another reason (no  *)
(* such directory, no permission) and no pipe is there.                     *)
MkfifoOutcomes == {"created", "EEXIST", "failed"}

(* One try { execSync("mkfifo " + path) } catch (e) { console.log(...) } of *)
(* lines 187 to 197: TRUE when an exception leaves the try statement. The  *)
(* catch has no condition and does not rethrow.                             *)
MkfifoThrows(outcome) == FALSE

(* createStreams(), lines 183 to 216: whether it is left by an exception,  *)
(* and the writes made to the inStream it opened.                           *)
createStreams(out, in) ==
  IF MkfifoThrows(out) \/ MkfifoThrows(in)
  THEN [aborted |-> TRUE, writes |-> <<>>]
  ELSE [aborted |-> FALSE, writes |-> <<NewlineWrite>>]

(* new BrowserView(options): the field initialisers, the constructor, and  *)
(* init() with createStreams(), lines 107 to 216; out and in are how the   *)
(* two mkfifo calls end. An exception in createStreams leaves init before  *)
(* line 180 and the constructor with it.                                    *)
NewWith(options, timer, out, in) ==
  /\ Len(views) < MaxViews
  /\ LET id == nextWebviewId
         view == Construct(id, options, timer)
         streams == createStreams(out, in)
     IN  /\ nextWebviewId' = NextId(nextWebviewId)
         /\ fifos' = Put(fifos, id, [out |-> out, in |-> in])
         /\ IF streams.aborted
            THEN UNCHANGED <<views, inStream, BrowserViewMap>>
            ELSE /\ views' = Append(views, view)
                 /\ inStream' = Put(inStream, id, streams.writes)
                 /\ BrowserViewMap' =
                      Register(BrowserViewMap, id, Len(views) + 1)
  /\ UNCHANGED <<rpcVars, callVars>>
  /\ UNCHANGED <<sendVars, recvVars, codecVars>>

(* A construction in which both pipes are made.                             *)
New(options, timer) == NewWith(options, timer, "created", "created")

NewBrowserView(options) == New(options, "none")

(* internalSyncRpcHandlers.webviewTagInit, lines 60 to 98, called by the   *)
(* page of a live view.                                                     *)
webviewTagInit(host, url, html) ==
  /\ host \in DOMAIN BrowserViewMap
  /\ New([url |-> url, html |-> html, hostWebviewId |-> host,
          autoResize |-> FALSE], "pending")

(* loadURL and loadHTML on the view at position i, lines 243 to 251.        *)
loadURL(i, url) ==
  /\ i \in DOMAIN views
  /\ views' = [views EXCEPT ![i].url = url]
  /\ UNCHANGED <<rpcVars, callVars>>
  /\ UNCHANGED <<nextWebviewId, BrowserViewMap, fifos, inStream, sendVars,
                 recvVars, codecVars>>

loadHTML(i, html) ==
  /\ i \in DOMAIN views
  /\ views' = [views EXCEPT ![i].html = html]
  /\ UNCHANGED <<rpcVars, callVars>>
  /\ UNCHANGED <<nextWebviewId, BrowserViewMap, fifos, inStream, sendVars,
                 recvVars, codecVars>>

(* The setTimeout callback of webviewTagInit, lines 84 to 95.               *)
TagTimer(i) ==
  /\ i \in DOMAIN views
  /\ views[i].timer = "pending"
  /\ views' = [views EXCEPT
       ![i].timer = "fired",
       ![i].url = IF views[i].tagUrl \notin {NULL, ""} THEN views[i].tagUrl
                  ELSE @,
       ![i].html = IF views[i].tagUrl \in {NULL, ""}
                      /\ views[i].tagHtml \notin {NULL, ""}
                   THEN views[i].tagHtml ELSE @]
  /\ UNCHANGED <<rpcVars, callVars>>
  /\ UNCHANGED <<nextWebviewId, BrowserViewMap, fifos, inStream, sendVars,
                 recvVars, codecVars>>

(* What BrowserViewMap[id] gives for an id that is not a key.               *)
undefined == [undefined |-> TRUE]

(* BrowserView.getById(id), lines 321 to 323.                               *)
getById(id) ==
  IF id \in DOMAIN BrowserViewMap THEN views[BrowserViewMap[id]] ELSE undefined

(* The k-th smallest element of a set of integers.                          *)
KthSmallest(S, k) == CHOOSE x \in S : Cardinality({y \in S : y <= x}) = k

(* BrowserView.getAll(), lines 325 to 327: Object.values lists the values  *)
(* of integer keys in ascending order of the keys.                          *)
getAll ==
  [k \in 1..Cardinality(DOMAIN BrowserViewMap) |->
     views[BrowserViewMap[KthSmallest(DOMAIN BrowserViewMap, k)]]]

Init ==
  /\ ViewsIdle /\ SendIdle /\ RecvIdle /\ CodecIdle /\ RpcIdle /\ CallsIdle
  /\ inStream = <<>>

Next ==
  \/ \E options \in OptionSets : NewBrowserView(options)
  \/ \E host \in DOMAIN BrowserViewMap, c \in TagContents :
       webviewTagInit(host, c[1], c[2])
  \/ \E i \in DOMAIN views : loadURL(i, "u")
  \/ \E i \in DOMAIN views : loadHTML(i, "h")
  \/ \E i \in DOMAIN views : TagTimer(i)

Spec == Init /\ [][Next]_vars

(* C10: the first view has id 1, every later view a larger id than every   *)
(* earlier one, and no step changes the id of a view.                       *)
C10_IdsUniqueMonotonic ==
  /\ [](/\ views # <<>> => views[1].id = 1
        /\ \A i, j \in DOMAIN views : i < j => views[i].id < views[j].id)
  /\ [][\A i \in DOMAIN views : views'[i].id = views[i].id]_vars

(* C10's case: three views, one of them made by webviewTagInit and       *)
(* loaded by its timer after its construction.                              *)
C10_Witness ==
  /\ Len(views) >= 3
  /\ \E i \in DOMAIN views :
       views[i].hostWebviewId # NoHost /\ views[i].timer = "fired"

(* The ids a caller may ask getById for: those given out and some more.    *)
LookupIds == 0..(MaxViews + 2)

(* C11: the registry holds exactly the views constructed so far (this code *)
(* destroys none): getById gives the view of that id for each of them, in  *)
(* its present state, and undefined for every other id, and getAll lists   *)
(* each of them once.                                                       *)
C11_RegistryMatchesViews ==
  /\ DOMAIN BrowserViewMap = {views[i].id : i \in DOMAIN views}
  /\ \A i \in DOMAIN views :
       /\ getById(views[i].id) = views[i]
       /\ Cardinality({k \in DOMAIN getAll : getAll[k] = views[i]}) = 1
  /\ \A id \in LookupIds :
       (\A i \in DOMAIN views : views[i].id # id) => getById(id) = undefined
  /\ Len(getAll) = Len(views)

(* C11's case: three views, one made by webviewTagInit, and a view whose   *)
(* content was loaded after it was registered.                              *)
C11_Witness ==
  /\ Len(views) = 3
  /\ \E i \in DOMAIN views : views[i].hostWebviewId # NoHost
  /\ \E i \in DOMAIN views : views[i].tagHtml = NULL /\ views[i].html = "h"
  /\ getById(4) = undefined

(* C13: no view has both a URL and inline content.                         *)
C13_OneContentSource ==
  \A i \in DOMAIN views : views[i].url = NULL \/ views[i].html = NULL

(* C16: two views never have the same pipePrefix, and none of the pipe     *)
(* paths of one is a pipe path of the other.                                *)
C16_PrefixesDistinct ==
  \A i, j \in DOMAIN views :
    i # j =>
      /\ views[i].pipePrefix # views[j].pipePrefix
      /\ {webviewPipeIn(views[i].pipePrefix), webviewPipeOut(views[i].pipePrefix)}
           \cap {webviewPipeIn(views[j].pipePrefix),
                 webviewPipeOut(views[j].pipePrefix)} = {}

(* C16's case: a view constructed by webviewTagInit between two            *)
(* constructions by the application, before its timer has run.              *)
C16_Witness ==
  /\ Len(views) = 3
  /\ views[2].hostWebviewId # NoHost
  /\ views[2].timer = "pending"
  /\ views[3].hostWebviewId = NoHost

----------------------------------------------------------------------------
(* SpecStreams: views constructed with default options while mkfifo ends  *)
(* in any of its ways.                                                      *)

(* defaultOptions of lines 47 to 57, the options of new BrowserView().      *)
defaultOptions ==
  [url |-> DefaultUrl, html |-> NULL, hostWebviewId |-> NoHost,
   autoResize |-> TRUE]

StreamsNext ==
  \E out \in MkfifoOutcomes, in \in MkfifoOutcomes :
    NewWith(defaultOptions, "none", out, in)

SpecStreams == Init /\ [][StreamsNext]_vars

(* C12: a construction whose two mkfifo calls made the pipe or found it    *)
(* there goes on: its inStream is open with the newline written and the    *)
(* view is registered. A construction in which a mkfifo failed for another *)
(* reason is aborted: no stream is opened for it and no view of that id is *)
(* left. Views constructed before and after it are as they would be.       *)
C12_PipeCreationErrors ==
  \A id \in DOMAIN fifos :
    IF fifos[id].out = "failed" \/ fifos[id].in = "failed"
    THEN /\ id \notin DOMAIN inStream
         /\ id \notin DOMAIN BrowserViewMap
         /\ \A i \in DOMAIN views : views[i].id # id
    ELSE /\ id \in DOMAIN inStream /\ inStream[id] = <<NewlineWrite>>
         /\ getById(id) # undefined /\ getById(id).id = id

----------------------------------------------------------------------------
(* SpecRpc: the listener that defineRPC registers for "*" (lines 399 to    *)
(* 412), called by the RPC library once for every inbound fire-and-forget  *)
(* message with the message's name and payload.                             *)

(* config.handlers.messages: the names it has a handler for, or not given. *)
NoMessageHandlers == {"undefined"}
HandlerConfigs == {NoMessageHandlers} \cup SUBSET {"*", "log"}

(* The names and payloads the peer may send.                                *)
MessageNames == {"log", "other", "*", "__proto__"}
Payloads == {"hello", "bye"}

(* messageHandlers[key] of lines 402 and 407, for an object written as a   *)
(* literal: its own property, else what Object.prototype has under that    *)
(* key ("__proto__" gives Object.prototype itself, an object that cannot   *)
(* be called), else undefined.                                              *)
Get(handlers, key) ==
  IF key \in handlers THEN [t |-> "function", key |-> key]
  ELSE IF key = "__proto__" THEN [t |-> "object", key |-> key]
  ELSE [t |-> "undefined", key |-> key]

(* if (f) { f(...args) }: the call made, and whether it throws a TypeError *)
(* because f is not a function.                                             *)
CallIfSet(f, args) ==
  IF f.t = "undefined" THEN [calls |-> <<>>, thrown |-> FALSE]
  ELSE IF f.t = "function"
    THEN [calls |-> <<[handler |-> f.key, args |-> args]>>, thrown |-> FALSE]
  ELSE [calls |-> <<>>, thrown |-> TRUE]

(* The listener of lines 401 to 411.                                        *)
Listener(handlers, messageName, payload) ==
  LET g == CallIfSet(Get(handlers, "*"), <<messageName, payload>>)
      h == CallIfSet(Get(handlers, messageName), <<payload>>)
  IN  IF g.thrown THEN g
      ELSE [calls |-> g.calls \o h.calls, thrown |-> h.thrown]

RpcInit ==
  /\ ViewsIdle /\ SendIdle /\ RecvIdle /\ CodecIdle /\ CallsIdle
  /\ inStream = <<>>
  /\ messageHandlers \in HandlerConfigs
  /\ dispatchLog = <<>>

(* An inbound message: the listener runs when line 395 registered it.      *)
Inbound(messageName, payload) ==
  /\ Len(dispatchLog) < MaxMessages
  /\ LET r == IF messageHandlers = NoMessageHandlers
              THEN [calls |-> <<>>, thrown |-> FALSE]
              ELSE Listener(messageHandlers, messageName, payload)
     IN  dispatchLog' = Append(dispatchLog,
           [name |-> messageName, payload |-> payload, calls |-> r.calls,
            thrown |-> r.thrown])
  /\ UNCHANGED <<viewVars, inStream, sendVars, recvVars, codecVars, callVars,
                 messageHandlers>>

RpcNext == \E messageName \in MessageNames, payload \in Payloads :
             Inbound(messageName, payload)

SpecRpc == RpcInit /\ [][RpcNext]_vars

(* The handlers the application registered: the wildcard handler, and the  *)
(* handler for a message name.                                              *)
HasWildcard == messageHandlers # NoMessageHandlers /\ "*" \in messageHandlers
HasHandlerFor(name) ==
  messageHandlers # NoMessageHandlers /\ name # "*" /\ name \in messageHandlers

(* C14: for every inbound message the calls made are the wildcard handler  *)
(* with (name, payload) when there is one, then the handler of that name   *)
(* with (payload) when there is one, and no other; no error is thrown.     *)
C14_DispatchOrder ==
  \A k \in DOMAIN dispatchLog :
    LET d == dispatchLog[k] IN
    /\ d.calls =
         (IF HasWildcard
          THEN <<[handler |-> "*", args |-> <<d.name, d.payload>>]>> ELSE <<>>)
         \o (IF HasHandlerFor(d.name)
             THEN <<[handler |-> d.name, args |-> <<d.payload>>]>> ELSE <<>>)
    /\ ~d.thrown

----------------------------------------------------------------------------
(* SpecCalls: transport.send on the pipe path, one write at a time. The    *)
(* callers are the tasks of one JavaScript thread; the socket accepts no   *)
(* view here.                                                               *)

CallMessages == {Str(<<"a">>), Str(<<"a", "a", "H", "L">>), Cyclic}

(* A loop that awaits its writes: another call may start in between.       *)
MayEnter_Awaiting(calls) == TRUE

(* send, sendMessageToWebviewViaExecute and executeJavascript are          *)
(* synchronous and their loop awaits nothing (lines 231 to 241): a call    *)
(* runs to its return before the thread takes up another.                   *)
MayEnter(calls) == calls = {}

CallsInit ==
  /\ ViewsIdle /\ RecvIdle /\ CodecIdle /\ RpcIdle
  /\ inStream = [v \in SendViews |-> <<NewlineWrite>>]
  /\ writeOwner = [v \in SendViews |-> <<0>>]
  /\ inflight = {}
  /\ socketQueue = [v \in SendViews |-> <<>>]
  /\ socketSent = [v \in SendViews |-> <<>>]
  /\ sendLog = <<>>
  /\ pipeTags = [v \in SendViews |-> <<>>]
  /\ peerPos = [v \in SendViews |-> 0]
  /\ delivered = [v \in SendViews |-> <<>>]
  /\ consoleErrors = 0
  /\ uncaught = 0

(* send(message) up to the first test of the loop: lines 275 to 280, 219   *)
(* to 225 and 232.                                                          *)
SendEnter(v, m) ==
  /\ MayEnter(inflight)
  /\ Len(sendLog) < MaxSends
  /\ LET idx == Len(sendLog) + 1
         sentOverSocket == sendMessageToWebviewViaSocket(FALSE, m)
         s == JSONStringify(m)
     IN  /\ sendLog' = Append(sendLog, [view |-> v, msg |-> m, accepts |-> FALSE])
         /\ ~sentOverSocket
         /\ IF s.ok
            THEN /\ inflight' = inflight \cup
                      {[call |-> idx, view |-> v, js |-> WrapMessage(s.text),
                        offset |-> 0]}
                 /\ pipeTags' = [pipeTags EXCEPT ![v] = Append(@, idx)]
                 /\ UNCHANGED consoleErrors
            ELSE /\ consoleErrors' = consoleErrors + 1
                 /\ UNCHANGED <<inflight, pipeTags>>
  /\ UNCHANGED <<viewVars, recvVars, codecVars, rpcVars, inStream, writeOwner,
                 socketQueue, socketSent, peerPos, delivered, uncaught>>

(* One turn of the loop: lines 233 to 236.                                  *)
WriteChunk(c) ==
  /\ c \in inflight
  /\ c.offset < Len(c.js)
  /\ inStream' = [inStream EXCEPT ![c.view] =
       Append(@, SubSeq(c.js, c.offset + 1, Min(c.offset + CHUNK_SIZE, Len(c.js))))]
  /\ writeOwner' = [writeOwner EXCEPT ![c.view] = Append(@, c.call)]
  /\ inflight' = (inflight \ {c}) \cup {[c EXCEPT !.offset = @ + CHUNK_SIZE]}
  /\ UNCHANGED <<viewVars, sendVars, recvVars, codecVars, rpcVars>>

(* The loop is left and the newline written: lines 233 and 240; the call   *)
(* returns.                                                                 *)
WriteNewline(c) ==
  /\ c \in inflight
  /\ c.offset >= Len(c.js)
  /\ inStream' = [inStream EXCEPT ![c.view] = Append(@, NewlineWrite)]
  /\ writeOwner' = [writeOwner EXCEPT ![c.view] = Append(@, c.call)]
  /\ inflight' = inflight \ {c}
  /\ UNCHANGED <<viewVars, sendVars, recvVars, codecVars, rpcVars>>

CallsNext ==
  \/ \E v \in SendViews, m \in CallMessages : SendEnter(v, m)
  \/ \E c \in inflight : WriteChunk(c)
  \/ \E c \in inflight : WriteNewline(c)

SpecCalls == CallsInit /\ [][CallsNext]_vars

(* C17: on every view's inStream the writes of one send call lie together, *)
(* chunks first and the newline last, and the writes of another call begin *)
(* only after that newline; the calls' writes come in the order of the     *)
(* calls, and those of a call that has returned are the chunks of its text *)
(* and a newline.                                                           *)
C17_SendsSerialized ==
  \A v \in SendViews :
    LET o == writeOwner[v]
        w == inStream[v]
    IN  /\ Len(o) = Len(w)
        /\ \A i, k \in DOMAIN o :
             (i < k /\ o[i] = o[k]) => \A j \in i..k : o[j] = o[i]
        /\ \A j \in 2..Len(o) :
             o[j] # o[j - 1] => (w[j - 1] = NewlineWrite /\ o[j - 1] < o[j])
        /\ inflight = {} =>
             w = <<NewlineWrite>> \o
                 Flatten([k \in 1..Len(pipeTags[v]) |->
                            ExpectedChunks(WireText(sendLog[pipeTags[v][k]].msg))
                              \o <<NewlineWrite>>])

(* C17's case: two calls on one view, each of more than one chunk, both    *)
(* returned.                                                                *)
C17_Witness ==
  /\ inflight = {}
  /\ \E v \in SendViews :
       /\ Len(pipeTags[v]) = 2
       /\ \A k \in 1..2 : Len(WireText(sendLog[pipeTags[v][k]].msg)) > CHUNK_SIZE
       /\ Len(inStream[v]) >= 7

====
